---- MODULE Spec2Model ----
(***************************************************************************)
(* Store recommendation service (MutsaDemoDay/AI).                         *)
(*                                                                         *)
(* Part 1 models app/services/collaborative_filtering.py, the user-based  *)
(* collaborative filtering engine (CollaborativeFilteringModel).           *)
(* Part 2 models app/services/recommendation.py, the catalog lookups, the  *)
(* five category pipelines and recommend_stores.                           *)
(*                                                                         *)
(* Conventions.                                                            *)
(*  - A user id is the natural number n standing for the string str(n); a  *)
(*    store id is the natural number n standing for "store%04d" % n.  For  *)
(*    the ids used here the numeric order is the lexicographic order of    *)
(*    the strings, which is the order pandas sorts labels in.              *)
(*  - An address is a sequence of one-character strings.                   *)
(*  - A pandas DataFrame is the record [kind, index, columns, den, values];*)
(*    values[i][j] / den is the cell of row index[i], column columns[j].   *)
(*    den is the common denominator of the means pivot_table computes.     *)
(*  - A real number of the form num / sqrt(den2) (a cosine similarity) is  *)
(*    the record [num, den2]; comparisons are exact.                       *)
(*  - Where numpy leaves the order of equal keys to the implementation     *)
(*    (argpartition, argsort) every order is a possible outcome.           *)
(***************************************************************************)
EXTENDS Integers, Sequences, FiniteSets, TLC

\* ------------------------------------------------------------------------
\* Bounds of the engine specification
\* ------------------------------------------------------------------------
Users == {1, 2, 3}

StoreIds == {1, 2}

VisitCounts == {1, 2}

MaxVisits == 2

TopNs == {0, 1, 2}

\* ------------------------------------------------------------------------
\* Arithmetic helpers
\* ------------------------------------------------------------------------
Min(a, b) == IF a <= b THEN a ELSE b

Abs(a) == IF a < 0 THEN -a ELSE a

RECURSIVE Gcd(_, _)
Gcd(a, b) == IF b = 0 THEN a ELSE Gcd(b, a % b)

Lcm(a, b) == (a * b) \div Gcd(a, b)

RECURSIVE LcmOfSet(_)
LcmOfSet(S) ==
    IF S = {} THEN 1
    ELSE LET x == CHOOSE y \in S : TRUE
         IN  Lcm(x, LcmOfSet(S \ {x}))

RECURSIVE SumOver(_, _)
SumOver(S, f) ==
    IF S = {} THEN 0
    ELSE LET x == CHOOSE y \in S : TRUE
         IN  f[x] + SumOver(S \ {x}, f)

Range(s) == {s[i] : i \in DOMAIN s}

\* A Python list: the sequence with its elements computed.
List(s) == SubSeq(s, 1, Len(s))

\* The elements of a finite set of integers in ascending order.
RECURSIVE SortedSeq(_)
SortedSeq(S) ==
    IF S = {} THEN <<>>
    ELSE LET m == CHOOSE x \in S : \A y \in S : x <= y
         IN  <<m>> \o SortedSeq(S \ {m})

\* list.index(x): the first position of x in s.
IndexOf(s, x) == CHOOSE i \in DOMAIN s : s[i] = x /\ \A j \in 1..(i - 1) : s[j] # x

\* The sequences of k distinct elements of S.
Arrangements(S, k) ==
    {q \in [1..k -> S] : \A i, j \in 1..k : i # j => q[i] # q[j]}

Dot(x, y) == SumOver(DOMAIN x, [j \in DOMAIN x |-> x[j] * y[j]])

\* ------------------------------------------------------------------------
\* Exact arithmetic on sums of x[i] * num[i] / sqrt(den2[i])
\* ------------------------------------------------------------------------
Sign(a) == IF a > 0 THEN 1 ELSE IF a < 0 THEN -1 ELSE 0

\* sign(p / sqrt(P) - n / sqrt(N)) for p, n >= 0 and P, N > 0.
SurdCompare(p, P, n, N) ==
    LET g  == Gcd(p, n)
        h  == Gcd(P, N)
        p1 == IF g = 0 THEN 0 ELSE p \div g
        n1 == IF g = 0 THEN 0 ELSE n \div g
    IN  Sign(p1 * p1 * (N \div h) - n1 * n1 * (P \div h))

\* sign(SUM_i x[i] * sims[i].num / sqrt(sims[i].den2)), for at most two terms
\* (a user has at most two neighbours when Users has three elements).
SurdSign(sims, x) ==
    LET t == [i \in DOMAIN sims |-> x[i] * sims[i].num]
    IN  IF Len(sims) = 0 THEN 0
        ELSE IF Len(sims) = 1 THEN Sign(t[1])
        ELSE IF t[1] >= 0 /\ t[2] >= 0 THEN Sign(t[1] + t[2])
        ELSE IF t[1] <= 0 /\ t[2] <= 0 THEN Sign(t[1] + t[2])
        ELSE IF t[1] > 0
             THEN SurdCompare(t[1], sims[1].den2, -t[2], sims[2].den2)
             ELSE SurdCompare(t[2], sims[2].den2, -t[1], sims[1].den2)

\* ------------------------------------------------------------------------
\* Part 1. CollaborativeFilteringModel (app/services/collaborative_filtering.py)
\* ------------------------------------------------------------------------
NoneFrame == [kind |-> "None", index |-> <<>>, columns |-> <<>>, den |-> 1, values |-> <<>>]

\* pd.DataFrame()
EmptyFrame == [kind |-> "DataFrame", index |-> <<>>, columns |-> <<>>, den |-> 1, values |-> <<>>]

\* DataFrame.empty
IsEmptyFrame(df) == Len(df.index) = 0 \/ Len(df.columns) = 0

NoneModel == [kind |-> "None", n_neighbors |-> 0, fit_X |-> <<>>]

VisitRecord(u, s, c) == [user_id |-> u, store_id |-> s, visit_count |-> c]

\* CollaborativeFilteringModel.__init__
NewCFModel ==
    [user_item_matrix |-> NoneFrame,
     user_ids         |-> <<>>,
     store_ids        |-> <<>>,
     model            |-> NoneModel,
     is_trained       |-> FALSE]

\* The rows of visit_data that pivot_table aggregates into cell (u, s).
PivotGroup(visit_data, u, s) ==
    {i \in DOMAIN visit_data : visit_data[i].user_id = u /\ visit_data[i].store_id = s}

\* The distinct elements of s in the order in which they first appear.
FirstSeen(s) ==
    LET firsts == {i \in DOMAIN s : \A j \in 1..(i - 1) : s[j] # s[i]}
        at     == SortedSeq(firsts)
    IN  [k \in DOMAIN at |-> s[at[k]]]

\* pivot_table with its groups left unsorted (sort=False): labels in the
\* order in which they first appear.
PivotTableUnsorted(visit_data) ==
    LET us    == FirstSeen([i \in DOMAIN visit_data |-> visit_data[i].user_id])
        ss    == FirstSeen([i \in DOMAIN visit_data |-> visit_data[i].store_id])
        sizes == {Cardinality(PivotGroup(visit_data, u, s)) : u \in Range(us), s \in Range(ss)} \ {0}
        d     == LcmOfSet(sizes)
        cell(u, s) ==
            LET g == PivotGroup(visit_data, u, s)
            IN  IF g = {} THEN 0
                ELSE (SumOver(g, [i \in g |-> visit_data[i].visit_count]) * d) \div Cardinality(g)
    IN  [kind    |-> "DataFrame",
         index   |-> us,
         columns |-> ss,
         den     |-> d,
         values  |-> [i \in DOMAIN us |-> [j \in DOMAIN ss |-> cell(us[i], ss[j])]]]

\* df.pivot_table(index='user_id', columns='store_id', values='visit_count',
\* fill_value=0): labels sorted, cell = mean of the group (aggfunc defaults to
\* 'mean'), 0 where the group is empty.
PivotTable(visit_data) ==
    LET us    == SortedSeq({visit_data[i].user_id : i \in DOMAIN visit_data})
        ss    == SortedSeq({visit_data[i].store_id : i \in DOMAIN visit_data})
        sizes == {Cardinality(PivotGroup(visit_data, u, s)) : u \in Range(us), s \in Range(ss)} \ {0}
        d     == LcmOfSet(sizes)
        cell(u, s) ==
            LET g == PivotGroup(visit_data, u, s)
            IN  IF g = {} THEN 0
                ELSE (SumOver(g, [i \in g |-> visit_data[i].visit_count]) * d) \div Cardinality(g)
    IN  [kind    |-> "DataFrame",
         index   |-> us,
         columns |-> ss,
         den     |-> d,
         values  |-> [i \in DOMAIN us |-> [j \in DOMAIN ss |-> cell(us[i], ss[j])]]]

\* create_user_item_matrix: the frame returned and the engine after the call
\* (user_ids and store_ids are assigned only for a non-empty visit_data).
create_user_item_matrix(cf, visit_data) ==
    IF visit_data = <<>>
    THEN [frame |-> EmptyFrame, cf |-> cf]
    ELSE LET m == PivotTable(visit_data)
         IN  [frame |-> m,
              cf    |-> [cf EXCEPT !.user_ids = m.index, !.store_ids = m.columns]]

\* train
train(cf, visit_data, n_neighbors) ==
    LET r   == create_user_item_matrix(cf, visit_data)
        cf1 == [r.cf EXCEPT !.user_item_matrix = r.frame]
    IN  IF IsEmptyFrame(cf1.user_item_matrix)
        THEN cf1
        ELSE [cf1 EXCEPT
                !.model = [kind        |-> "NearestNeighbors",
                           n_neighbors |-> Min(n_neighbors, Len(cf1.user_ids)),
                           fit_X       |-> cf1.user_item_matrix.values],
                !.is_trained = TRUE]

\* The outcome of a call: a returned value or a raised exception.
Returned(v) == [raised |-> FALSE, value |-> v]

Raised == [raised |-> TRUE, value |-> <<>>]

Norm2(x) == Dot(x, x)

\* Cosine similarity of two rows (1 - cosine distance); 0 when a row is all 0.
CosineSimilarity(x, y) ==
    IF Norm2(x) = 0 \/ Norm2(y) = 0
    THEN [num |-> 0, den2 |-> 1]
    ELSE [num |-> Dot(x, y), den2 |-> Norm2(x) * Norm2(y)]

\* sign(a - b) for two similarities of non-negative rows.
SimCompare(a, b) == SurdCompare(a.num, a.den2, b.num, b.den2)

\* NearestNeighbors.kneighbors(user_vector, n_neighbors) with metric='cosine',
\* algorithm='brute': the n_neighbors fitted rows nearest to user_vector, nearest
\* first.  Rows at equal distance come in an order the implementation chooses.
kneighbors(model, user_vector, n_neighbors) ==
    IF model.kind = "None" THEN {Raised}
    ELSE IF n_neighbors > Len(model.fit_X) \/ n_neighbors <= 0 THEN {Raised}
    ELSE IF Len(user_vector) # Len(model.fit_X[1]) THEN {Raised}
    ELSE LET n      == Len(model.fit_X)
             sim(r) == CosineSimilarity(user_vector, model.fit_X[r])
         IN  {Returned(q) : q \in
                {q \in Arrangements(1..n, n_neighbors) :
                    /\ \A i \in 1..(n_neighbors - 1) : SimCompare(sim(q[i]), sim(q[i + 1])) >= 0
                    /\ \A r \in (1..n) \ Range(q) : SimCompare(sim(q[n_neighbors]), sim(r)) >= 0}}

\* get_similar_users without the slice [1:] of line 113: every neighbour that
\* kneighbors returns is kept, the nearest one included.
get_similar_users_keeping_first(cf, user_id, n_neighbors) ==
    IF ~cf.is_trained \/ user_id \notin Range(cf.user_ids) THEN {Returned(<<>>)}
    ELSE IF Len(cf.user_ids) <= 1 THEN {Returned(<<>>)}
    ELSE LET user_idx == IndexOf(cf.user_ids, user_id)
         IN  IF user_idx > Len(cf.user_item_matrix.values)
             THEN {Raised}
             ELSE LET user_vector        == cf.user_item_matrix.values[user_idx]
                      actual_n_neighbors == Min(n_neighbors + 1, Len(cf.user_ids))
                  IN  {IF o.raised THEN Raised
                       ELSE Returned([i \in 1..Len(o.value) |->
                                <<cf.user_ids[o.value[i]],
                                  CosineSimilarity(user_vector, cf.model.fit_X[o.value[i]])>>])
                       : o \in kneighbors(cf.model, user_vector, actual_n_neighbors)}

\* get_similar_users
get_similar_users(cf, user_id, n_neighbors) ==
    IF ~cf.is_trained \/ user_id \notin Range(cf.user_ids) THEN {Returned(<<>>)}
    ELSE IF Len(cf.user_ids) <= 1 THEN {Returned(<<>>)}
    ELSE LET user_idx == IndexOf(cf.user_ids, user_id)
         IN  IF user_idx > Len(cf.user_item_matrix.values)
             THEN {Raised}   \* iloc[user_idx]: IndexError
             ELSE LET user_vector        == cf.user_item_matrix.values[user_idx]
                      actual_n_neighbors == Min(n_neighbors + 1, Len(cf.user_ids))
                  IN  {IF o.raised THEN Raised
                       ELSE Returned([i \in 1..(Len(o.value) - 1) |->
                                <<cf.user_ids[o.value[i + 1]],
                                  CosineSimilarity(user_vector, cf.model.fit_X[o.value[i + 1]])>>])
                       : o \in kneighbors(cf.model, user_vector, actual_n_neighbors)}

UnitSim == [num |-> 1, den2 |-> 1]

\* A predicted score: (SUM_i sims[i] * vals[i]) / (den * SUM_i sims[i]).
Score(sims, vals, den) == [sims |-> sims, vals |-> vals, den |-> den]

\* Series.nlargest(n) of the column sums: descending, equal sums in column order.
RECURSIVE NLargest(_, _, _)
NLargest(pop, cols, n) ==
    IF n <= 0 \/ cols = {} THEN <<>>
    ELSE LET j == CHOOSE c \in cols :
                    \A c2 \in cols : pop[c] > pop[c2] \/ (pop[c] = pop[c2] /\ c <= c2)
         IN  <<j>> \o NLargest(pop, cols \ {j}, n - 1)

\* _recommend_for_new_user
recommend_for_new_user(cf, n_recommendations) ==
    LET m == cf.user_item_matrix
    IN  IF m.kind = "None" \/ IsEmptyFrame(m) THEN <<>>
        ELSE LET store_popularity ==
                     [j \in DOMAIN m.columns |->
                         SumOver(DOMAIN m.index, [i \in DOMAIN m.index |-> m.values[i][j]])]
                 top_stores == NLargest(store_popularity, DOMAIN m.columns, n_recommendations)
                 positive(j) == store_popularity[j] > 0
                 kept == SelectSeq(top_stores, positive)
             IN  [k \in DOMAIN kept |->
                     <<m.columns[kept[k]], Score(<<UnitSim>>, <<store_popularity[kept[k]]>>, m.den)>>]

\* recommend_stores of the model (predict)
cf_recommend_stores(cf, user_id, n_recommendations, exclude_visited) ==
    IF ~cf.is_trained THEN {Returned(<<>>)}
    ELSE IF Len(cf.user_ids) < 2 THEN {Returned(recommend_for_new_user(cf, n_recommendations))}
    ELSE IF user_id \notin Range(cf.user_ids)
         THEN {Returned(recommend_for_new_user(cf, n_recommendations))}
    ELSE UNION {
        IF su.raised THEN {Raised}
        ELSE IF su.value = <<>> THEN {Returned(recommend_for_new_user(cf, n_recommendations))}
        ELSE
          LET m            == cf.user_item_matrix
              user_idx     == IndexOf(cf.user_ids, user_id)
              user_visited == m.values[user_idx]
              sims         == [i \in DOMAIN su.value |-> su.value[i][2]]
              visits(i)    == m.values[IndexOf(cf.user_ids, su.value[i][1])]
              cols         == 1..Len(cf.store_ids)
              vals(j)      == [i \in DOMAIN su.value |-> visits(i)[j]]
              masked(j)    == exclude_visited /\ user_visited[j] > 0
              \* sign(predicted_scores[j] - predicted_scores[k])
              cmp(j, k)    ==
                  IF masked(j) /\ masked(k) THEN 0
                  ELSE IF masked(j) THEN -1
                  ELSE IF masked(k) THEN 1
                  ELSE SurdSign(sims, [i \in DOMAIN sims |-> vals(j)[i] - vals(k)[i]])
              positive(j)  == ~masked(j) /\ SurdSign(sims, vals(j)) > 0
              k            == Min(n_recommendations, Len(cf.store_ids))
              \* np.argsort(predicted_scores)[::-1][:n_recommendations]
              top_indices  ==
                  {q \in Arrangements(cols, IF k < 0 THEN 0 ELSE k) :
                      /\ \A i \in 1..(Len(q) - 1) : cmp(q[i], q[i + 1]) >= 0
                      /\ \A c \in cols \ Range(q) : Len(q) > 0 => cmp(q[Len(q)], c) >= 0}
          IN  {Returned(LET kept == SelectSeq(q, positive)
                        IN  [x \in DOMAIN kept |->
                               <<cf.store_ids[kept[x]], Score(sims, vals(kept[x]), m.den)>>])
               : q \in top_indices}
        : su \in get_similar_users(cf, user_id, 10) }

\* ------------------------------------------------------------------------
\* Part 2. RecommendationService (app/services/recommendation.py)
\* ------------------------------------------------------------------------
\* A catalog row.  pos is the store's coordinate: coordinates are points of a
\* line, one unit a kilometre.  rating is in tenths.  well_formed tells whether
\* the row's name and category cells hold strings, which StoreInfo requires.
StoreRow(id, name, address, pos, rating, well_formed) ==
    [store_id |-> id, name |-> name, address |-> address, pos |-> pos,
     rating |-> rating, well_formed |-> well_formed]

\* The rows of the snapshot (ai_data/*.xlsx) after _load_stores_from_excel has
\* numbered them store0001, store0002, ...
SnapshotRows ==
    << StoreRow(1, "n1", <<"a">>,      1,  40, TRUE),
       StoreRow(2, "n2", <<"b">>,      2,  45, TRUE),
       StoreRow(3, "n3", <<"c", " ">>, 4,  41, TRUE),
       StoreRow(4, "n4", <<"a", "d">>, 8,  42, TRUE),
       StoreRow(5, "n5", <<"e">>,      12, 43, TRUE) >>

\* The same snapshot with a row whose name cell is empty.
SnapshotRowsBadName == [SnapshotRows EXCEPT ![2].well_formed = FALSE]

\* A mock catalog of two rows.
TwoMockRows ==
    << StoreRow(0, "mock", <<"m">>, 3, 45, TRUE), StoreRow(0, "mock", <<"m">>, 3, 45, TRUE) >>

\* The mock row _load_stores_from_excel returns when reading the snapshot fails;
\* store id 0 stands for its id "store001", which no snapshot row has.
MockRows == << StoreRow(0, "mock", <<"m">>, 3, 45, TRUE) >>

NoneCatalog == [kind |-> "None", rows |-> <<>>]

Catalog(rows) == [kind |-> "DataFrame", rows |-> rows]

\* pd.read_excel(excel_path) and the steps that shape its frame: the rows read,
\* or an exception.
read_excel == {Returned(SnapshotRows), Returned(SnapshotRowsBadName), Raised}

\* _load_stores_from_excel when its try block ends as o: the frame read, or
\* the mock frame of its except block.
load_stores_from_excel_after(o) ==
    IF o.raised THEN Catalog(MockRows) ELSE Catalog(o.value)

\* _load_stores_from_excel: the snapshot read, or the mock row on any failure.
load_stores_from_excel == {load_stores_from_excel_after(o) : o \in read_excel}

\* _ensure_data_loaded, called by one thread: the catalogs stores_df may hold
\* after the call.
ensure_data_loaded(df) ==
    IF df.kind = "None" THEN load_stores_from_excel ELSE {df}

\* A request field that holds None.
NoneAddr == <<"None">>

RECURSIVE LStrip(_)
LStrip(s) == IF s # <<>> /\ Head(s) = " " THEN LStrip(Tail(s)) ELSE s

RECURSIVE RStrip(_)
RStrip(s) == IF s # <<>> /\ s[Len(s)] = " " THEN RStrip(SubSeq(s, 1, Len(s) - 1)) ELSE s

\* str.strip()
Strip(s) == RStrip(LStrip(s))

\* str.contains(needle, regex=False)
Contains(hay, needle) ==
    \E i \in 0..(Len(hay) - Len(needle)) : SubSeq(hay, i + 1, i + Len(needle)) = needle

\* The outcome of a lookup: raised, or found with the row, or not found (None).
Found(row) == [raised |-> FALSE, found |-> TRUE, row |-> row]

NotFound == [raised |-> FALSE, found |-> FALSE, row |-> StoreRow(0, "", <<>>, 0, 0, TRUE)]

LookupRaised == [raised |-> TRUE, found |-> FALSE, row |-> StoreRow(0, "", <<>>, 0, 0, TRUE)]

\* store_row.iloc[-1]: the last of the rows a boolean mask selects.
LastRow(df, mask) ==
    IF \E i \in DOMAIN df.rows : mask[i]
    THEN Found(df.rows[CHOOSE i \in DOMAIN df.rows :
                         mask[i] /\ \A j \in (i + 1)..Len(df.rows) : ~mask[j]])
    ELSE NotFound

\* store_row.iloc[0] of the rows a boolean mask selects, None when it selects
\* none.
FirstRow(df, mask) ==
    IF \E i \in DOMAIN df.rows : mask[i]
    THEN Found(df.rows[CHOOSE i \in DOMAIN df.rows :
                         mask[i] /\ \A j \in 1..(i - 1) : ~mask[j]])
    ELSE NotFound

\* _get_store_by_id
get_store_by_id(df, store_id) ==
    FirstRow(df, [i \in DOMAIN df.rows |-> df.rows[i].store_id = store_id])

\* _get_store_by_address: exact match, then match after strip, then substring
\* match; store_address.strip() raises AttributeError when store_address is
\* None and no row compares equal to None.
get_store_by_address(df, store_address) ==
    LET exact    == List([i \in DOMAIN df.rows |-> df.rows[i].address = store_address])
        stripped == List([i \in DOMAIN df.rows |->
                             Strip(df.rows[i].address) = Strip(store_address)])
        partial  == List([i \in DOMAIN df.rows |->
                             Contains(df.rows[i].address, Strip(store_address))])
        tier1    == FirstRow(df, exact)
        tier2    == FirstRow(df, stripped)
    IN  IF tier1.found THEN tier1
        ELSE IF store_address = NoneAddr THEN LookupRaised
        ELSE IF tier2.found THEN tier2
        ELSE FirstRow(df, partial)

\* haversine_distance between the user's location and a store, in km.
calculate_distance(loc, store) == Abs(loc - store.pos)

\* SimpleStoreInfo(name=store.name, address=store.address)
SimpleStoreInfo(store) == [name |-> store.name, address |-> store.address]

\* A descending sort that puts the later of two equal scores first.
SortDescendingLaterFirst(s, cmp) ==
    LET before(j, k) == cmp[j][k] > 0 \/ (cmp[j][k] = 0 /\ j > k)
        place(k)     == 1 + Cardinality({j \in DOMAIN s : before(j, k)})
    IN  List([i \in DOMAIN s |-> s[CHOOSE k \in DOMAIN s : place(k) = i]])

\* candidates.sort(key=score, reverse=True): descending, stable.  cmp[j][k] is
\* the sign of score(s[j]) - score(s[k]); an element's place is one more than
\* the number of elements that sort before it.
SortDescending(s, cmp) ==
    LET before(j, k) == cmp[j][k] > 0 \/ (cmp[j][k] = 0 /\ j < k)
        place(k)     == 1 + Cardinality({j \in DOMAIN s : before(j, k)})
    IN  List([i \in DOMAIN s |-> s[CHOOSE k \in DOMAIN s : place(k) = i]])

\* A cut that keeps three candidates instead of two.
Top3(s) == SubSeq(s, 1, Min(3, Len(s)))

\* candidates[:2]
Top2(s) == SubSeq(s, 1, Min(2, Len(s)))

\* self._get_store_by_address(data["store_address"]) for each record of a list.
RECURSIVE Lookups(_, _)
Lookups(df, data) ==
    IF data = <<>> THEN <<>>
    ELSE <<get_store_by_address(df, Head(data).store_address)>> \o Lookups(df, Tail(data))

\* The candidates a category loop builds from its records, in order, each with
\* its record and its distance: a record whose address matches no row is
\* skipped; the loop raises when the lookup raises or when _create_store_info
\* is given a row StoreInfo rejects.
BuildCandidates(df, loc, data) ==
    LET looks   == Lookups(df, data)
        kept    == SortedSeq({i \in DOMAIN data : looks[i].found})
    IN  IF \E i \in DOMAIN data : looks[i].raised \/ (looks[i].found /\ ~looks[i].row.well_formed)
        THEN Raised
        ELSE Returned(List([k \in DOMAIN kept |->
                              [store    |-> looks[kept[k]].row,
                               data     |-> data[kept[k]],
                               distance |-> calculate_distance(loc, looks[kept[k]].row)]]))

\* The signs of the differences of the candidates' scores.
IntCmp(scores) ==
    List([j \in DOMAIN scores |->
             List([k \in DOMAIN scores |-> Sign(scores[j] - scores[k])])])

\* The common tail of the category functions: sort by score, cut to two,
\* convert.  n_candidates is the number of candidates before the cut;
\* candidates and cmp are the list that was sorted and the signs of its score
\* differences.
RankedOutcome(built, scores) ==
    IF built.raised
    THEN [raised |-> TRUE, value |-> <<>>, n_candidates |-> 0,
          candidates |-> <<>>, cmp |-> <<>>]
    ELSE LET result == Top2(SortDescending(built.value, IntCmp(scores)))
         IN  [raised       |-> FALSE,
              value        |-> [i \in DOMAIN result |-> SimpleStoreInfo(result[i].store)],
              n_candidates |-> Len(built.value),
              candidates   |-> built.value,
              cmp          |-> IntCmp(scores)]

\* Scores are kept in tenths (the code's score times 10).
event_score(event_data, distance) == event_data.exp_multiplier * 300 - distance * 20

\* The new-store score without max(0, ...).
new_score_unclamped(new_data, distance) ==
    (30 - new_data.days_since_joined) * 2 * 10 - distance * 20

new_score(new_data, distance) ==
    LET first == (30 - new_data.days_since_joined) * 2
    IN  (IF first > 0 THEN first ELSE 0) * 10 - distance * 20

popular_score(popular_data, distance) == popular_data.visit_count - distance * 20

nearby_score(store, distance) == 300 - distance * 50 + store.rating * 2

recommend_event_stores(df, loc, event_stores_data) ==
    LET built == BuildCandidates(df, loc, event_stores_data)
    IN  RankedOutcome(built, List([k \in DOMAIN built.value |->
                                      event_score(built.value[k].data, built.value[k].distance)]))

recommend_new_stores(df, loc, new_stores_data) ==
    LET built == BuildCandidates(df, loc, new_stores_data)
    IN  RankedOutcome(built, List([k \in DOMAIN built.value |->
                                      new_score(built.value[k].data, built.value[k].distance)]))

recommend_popular_stores(df, loc, popular_stores_data) ==
    LET built == BuildCandidates(df, loc, popular_stores_data)
    IN  RankedOutcome(built, List([k \in DOMAIN built.value |->
                                      popular_score(built.value[k].data, built.value[k].distance)]))

\* The candidates of the nearby category taken at any distance.
NearbyCandidatesAnyDistance(rows, loc, recommended_addresses) ==
    LET eligible(i) == rows[i].address \notin recommended_addresses
        kept        == SortedSeq({i \in DOMAIN rows : eligible(i)})
    IN  IF \E i \in DOMAIN rows : eligible(i) /\ ~rows[i].well_formed
        THEN Raised
        ELSE Returned(List([k \in DOMAIN kept |->
                              [store    |-> rows[kept[k]],
                               distance |-> calculate_distance(loc, rows[kept[k]])]]))

\* The candidates of recommend_nearby_stores, in catalog order: rows already
\* recommended or farther than 5 km are skipped.
NearbyCandidates(rows, loc, recommended_addresses) ==
    LET eligible(i) == /\ rows[i].address \notin recommended_addresses
                       /\ calculate_distance(loc, rows[i]) <= 5
        kept        == SortedSeq({i \in DOMAIN rows : eligible(i)})
    IN  IF \E i \in DOMAIN rows : eligible(i) /\ ~rows[i].well_formed
        THEN Raised
        ELSE Returned(List([k \in DOMAIN kept |->
                              [store    |-> rows[kept[k]],
                               distance |-> calculate_distance(loc, rows[kept[k]])]]))

\* A nearby category that ranks and cuts every row within 5 km and only then
\* drops the recommended addresses.
recommend_nearby_stores_filter_last(df, loc, recommended_addresses) ==
    LET built  == NearbyCandidates(df.rows, loc, {})
        ranked == RankedOutcome(built, List([k \in DOMAIN built.value |->
                                    nearby_score(built.value[k].store, built.value[k].distance)]))
        keep(x) == x.address \notin recommended_addresses
    IN  [ranked EXCEPT !.value = SelectSeq(ranked.value, keep)]

recommend_nearby_stores(df, loc, recommended_addresses) ==
    LET built == NearbyCandidates(df.rows, loc, recommended_addresses)
    IN  RankedOutcome(built, List([k \in DOMAIN built.value |->
                                      nearby_score(built.value[k].store, built.value[k].distance)]))

\* A visit record of the request or of the visit database.
Visit(user_id, store_address, visit_count) ==
    [user_id |-> user_id, store_address |-> store_address, visit_count |-> visit_count]

\* _fetch_visit_data_from_db: the rows the visit database may return; the
\* empty list also when the connection or the query fails.
fetch_visit_data_from_db ==
    { <<>>,
      << Visit(2, <<"a">>, 1), Visit(2, <<"b">>, 2), Visit(2, <<"a", "d">>, 1) >>,
      << Visit(2, <<"a">>, 1), Visit(2, <<"b">>, 2), Visit(3, <<"a">>, 2), Visit(3, <<"c">>, 1) >>,
      << Visit(2, <<"a">>, 1), Visit(2, <<"b">>, 2), Visit(2, <<"e">>, 3) >> }

\* The records _train_cf_model passes to train: the request's records followed
\* by the database records whose (user_id, store_address) is new, each with
\* the store id of the row its address resolves to; unresolved ones dropped.
formatted_visit_data(df, visit_data, db_visit_data) ==
    LET key(v)      == <<v.user_id, v.store_address>>
        req_keys    == {key(visit_data[i]) : i \in DOMAIN visit_data}
        fresh(i)    == /\ key(db_visit_data[i]) \notin req_keys
                       /\ \A j \in 1..(i - 1) : key(db_visit_data[j]) # key(db_visit_data[i])
        db_kept     == SortedSeq({i \in DOMAIN db_visit_data : fresh(i)})
        all_visit_data ==
            visit_data \o [k \in DOMAIN db_kept |-> db_visit_data[db_kept[k]]]
        truthy(a)   == a # <<>> /\ a # NoneAddr
        looks       == Lookups(df, all_visit_data)
        look(i)     == looks[i]
        kept        == SortedSeq({i \in DOMAIN all_visit_data :
                                    truthy(all_visit_data[i].store_address) /\ look(i).found})
    IN  [k \in DOMAIN kept |->
            VisitRecord(all_visit_data[kept[k]].user_id,
                        look(kept[k]).row.store_id,
                        all_visit_data[kept[k]].visit_count)]

\* _train_cf_model: whether the model was trained, and the engine afterwards.
train_cf_model(df, cf, visit_data, db_visit_data) ==
    LET formatted == formatted_visit_data(df, visit_data, db_visit_data)
    IN  IF formatted = <<>> THEN [ok |-> FALSE, cf |-> cf]
        ELSE [ok |-> TRUE, cf |-> train(cf, formatted, 10)]

\* The signs of (a.score * 10 - a.distance) - (b.score * 10 - b.distance) for
\* the candidates of one result, whose predictions share their similarities.
AICmp(s) ==
    [j \in DOMAIN s |-> [k \in DOMAIN s |->
        SurdSign(s[j].score.sims,
                 [i \in DOMAIN s[j].score.sims |->
                     10 * (s[j].score.vals[i] - s[k].score.vals[i])
                       - s[j].score.den * (s[j].distance - s[k].distance)])]]

\* The candidate loop of recommend_cf_stores over the engine's predictions:
\* unknown store ids and stores farther than 10 km are skipped, and the loop
\* stops at five candidates.
AICandidates(df, loc, cf_recommendations) ==
    LET look(i)     == get_store_by_id(df, cf_recommendations[i][1])
        eligible(i) == look(i).found /\ calculate_distance(loc, look(i).row) <= 10
        earlier(i)  == Cardinality({j \in 1..(i - 1) : eligible(j)})
        kept        == SortedSeq({i \in DOMAIN cf_recommendations :
                                    eligible(i) /\ earlier(i) < 5})
    IN  IF \E i \in DOMAIN cf_recommendations :
              eligible(i) /\ earlier(i) < 5 /\ ~look(i).row.well_formed
        THEN Raised
        ELSE Returned([k \in DOMAIN kept |->
                         [store    |-> look(kept[k]).row,
                          score    |-> cf_recommendations[kept[k]][2],
                          distance |-> calculate_distance(loc, look(kept[k]).row)]])

\* recommend_cf_stores after its training: the engine's predictions turned
\* into the ranked candidates.  The possible outcomes, each with the engine.
rank_cf_stores(df, cf, user_id, loc) ==
    LET ranked(o)  ==
            IF o.raised
            THEN [raised |-> TRUE, value |-> <<>>, n_candidates |-> 0, cf |-> cf,
                  candidates |-> <<>>, cmp |-> <<>>]
            ELSE LET built == AICandidates(df, loc, o.value)
                 IN  IF built.raised
                     THEN [raised |-> TRUE, value |-> <<>>, n_candidates |-> 0, cf |-> cf,
                           candidates |-> <<>>, cmp |-> <<>>]
                     ELSE LET result == Top2(SortDescending(built.value, AICmp(built.value)))
                          IN  [raised       |-> FALSE,
                               value        |-> [i \in DOMAIN result |->
                                                    SimpleStoreInfo(result[i].store)],
                               n_candidates |-> Len(built.value),
                               cf           |-> cf,
                               candidates   |-> built.value,
                               cmp          |-> AICmp(built.value)]
    IN  {ranked(o) : o \in cf_recommend_stores(cf, user_id, 10, TRUE)}

\* A recommend_cf_stores that trains and queries the engine also when the
\* request brings no visit data.
recommend_cf_stores_never_skipped(df, cf, user_id, loc, user_visit_data, db_visit_data) ==
    LET trained == train_cf_model(df, cf, user_visit_data, db_visit_data)
    IN  IF ~trained.ok
        THEN {[raised |-> FALSE, value |-> <<>>, n_candidates |-> 0, cf |-> trained.cf,
               candidates |-> <<>>, cmp |-> <<>>]}
        ELSE rank_cf_stores(df, trained.cf, user_id, loc)

\* recommend_cf_stores: the possible outcomes, each with the engine it leaves.
recommend_cf_stores(df, cf, user_id, loc, user_visit_data, db_visit_data) ==
    LET skipped(c) == [raised |-> FALSE, value |-> <<>>, n_candidates |-> 0, cf |-> c,
                       candidates |-> <<>>, cmp |-> <<>>]
        trained    == train_cf_model(df, cf, user_visit_data, db_visit_data)
    IN  IF user_visit_data = <<>> THEN {skipped(cf)}
        ELSE IF ~trained.ok THEN {skipped(trained.cf)}
        ELSE rank_cf_stores(df, trained.cf, user_id, loc)

\* A category block without its except clause: the exception leaves the block.
Propagate(outcome) == outcome

\* try: ... except Exception: stores = []
TryExcept(outcome) ==
    IF outcome.raised THEN [outcome EXCEPT !.raised = FALSE, !.value = <<>>] ELSE outcome

\* A category block without the filter on the AI addresses.
KeepAll(stores_raw, ai_recommended_addresses) == stores_raw

\* [s for s in stores_raw if s.address not in ai_recommended_addresses]
WithoutAI(stores_raw, ai_recommended_addresses) ==
    LET keep(s) == s.address \notin ai_recommended_addresses
    IN  SelectSeq(stores_raw, keep)

Addresses(stores) == {stores[i].address : i \in DOMAIN stores}

CategoryOrder == <<"ai", "event", "new", "popular", "nearby">>

CategoryRecommendation(category, stores) == [category |-> category, stores |-> stores]

NoResponse == [sent |-> FALSE, success |-> FALSE, user_id |-> 0, recommendations |-> <<>>]

\* A response whose success flag is false when a category is empty.
ResponseFailsOnEmptyCategory(user_id, recs) ==
    [sent |-> TRUE, success |-> \A i \in DOMAIN recs : recs[i].stores # <<>>,
     user_id |-> user_id, recommendations |-> recs]

\* RecommendationResponse(success=True, user_id=..., recommendations=...)
RecommendationResponse(user_id, recs) ==
    [sent |-> TRUE, success |-> TRUE, user_id |-> user_id, recommendations |-> recs]

\* The HTTP 500 the endpoint answers when recommend_stores raises.
ServerError(user_id) ==
    [sent |-> TRUE, success |-> FALSE, user_id |-> user_id, recommendations |-> <<>>]

\* ------------------------------------------------------------------------
\* Bounds of the service specification
\* ------------------------------------------------------------------------
\* The longest candidate list of a request.
MaxCand == 3

ReqUsers == {1, 3}

Locations == {0}

EventRecord(a, m) == [store_address |-> a, exp_multiplier |-> m]

NewRecord(a, d) == [store_address |-> a, days_since_joined |-> d]

PopularRecord(a, c) == [store_address |-> a, visit_count |-> c]

EventRecords ==
    { EventRecord(<<"a">>, 1), EventRecord(<<"b">>, 2), EventRecord(NoneAddr, 1) }

NewRecords ==
    { NewRecord(<<"a">>, 3), NewRecord(<<"d">>, 10), NewRecord(NoneAddr, 0) }

PopularRecords ==
    { PopularRecord(<<"b">>, 50), PopularRecord(<<"c">>, 30), PopularRecord(<<"z">>, 10) }

Lists(S) == UNION {[1..n -> S] : n \in 0..MaxCand}

\* request.visit_statics
ReqVisitLists ==
    { <<>>,
      << Visit(1, <<"a">>, 2) >>,
      << Visit(1, <<"a">>, 1), Visit(1, <<"a", " ">>, 2) >> }

\* ------------------------------------------------------------------------
\* State
\* ------------------------------------------------------------------------
VARIABLES
    cf_model,         \* the CollaborativeFilteringModel instance
    call,             \* the last call made on the engine's interface and its outcome
    last_train,       \* whether train was called, and the user ids of its last visit_data
    stores_df,        \* RecommendationService.stores_df
    pc,               \* where recommend_stores stands: the category it runs next
    request,          \* user_id and location of the request being served
    recommendations,  \* the list recommend_stores appends its categories to
    raised,           \* the categories whose pipeline raised in this request
    last,             \* the category that ran last: what its pipeline returned
    response,         \* the answer to the request
    probe,            \* the last direct call of a helper of the service: input, result
    ai_calls,         \* each thread's call of recommend_cf_stores: arguments, position, result
    is_loading,       \* RecommendationService._is_loading
    loader,           \* each thread's position in _ensure_data_loaded and in its caller
    reads             \* how many times the snapshot has been read

engine_vars == <<call, last_train>>

\* The variables neither the engine's interface nor recommend_stores writes.
helper_vars == <<probe, ai_calls>>

\* The variables of _ensure_data_loaded run by several threads.
load_vars == <<is_loading, loader, reads>>

service_vars == <<stores_df, pc, request, recommendations, raised, last, response>>

vars == <<cf_model, call, last_train, stores_df, pc, request, recommendations, raised,
          last, response, helper_vars, load_vars>>

\* ------------------------------------------------------------------------
\* The engine driven through its interface
\* ------------------------------------------------------------------------
VisitRecords == {VisitRecord(u, s, c) : u \in Users, s \in StoreIds, c \in VisitCounts}

VisitSeqs == UNION {[1..n -> VisitRecords] : n \in 0..MaxVisits}

Call(op, user, n, exclude, out) ==
    [op |-> op, user |-> user, n |-> n, exclude |-> exclude, out |-> out]

NoLast == [category |-> "none", raised |-> FALSE, ranked |-> <<>>, n_candidates |-> 0]

NoProbe == [op |-> "none"]

\* The threads of the host that may call into the service at once.
NThreads == 2

Threads == 1..NThreads

\* A thread in none of the service's methods.
Idle == [pc |-> "idle", read |-> Returned(<<>>), saw_loaded |-> FALSE]

\* A thread that has not called recommend_cf_stores.
NoAICall ==
    [pc |-> "idle", user_id |-> 0, user_visit_data |-> <<>>, db_visit_data |-> <<>>,
     out |-> Returned(<<>>)]

\* The service and its engine after construction (RecommendationService.__init__).
Constructed ==
    /\ cf_model = NewCFModel
    /\ call = Call("init", 0, 0, FALSE, Returned(<<>>))
    /\ last_train = [called |-> FALSE, users |-> {}]
    /\ stores_df = NoneCatalog
    /\ pc = "idle"
    /\ request = [user_id |-> 0, location |-> 0]
    /\ recommendations = <<>>
    /\ raised = {}
    /\ last = NoLast
    /\ response = NoResponse
    /\ is_loading = FALSE
    /\ loader = [t \in Threads |-> Idle]
    /\ reads = 0
    /\ ai_calls = [t \in Threads |-> NoAICall]

Init ==
    /\ Constructed
    /\ probe = NoProbe

\* train(visit_data).  The calls below that query the engine leave it unchanged,
\* so a train call made after a query reaches no engine state that train calls
\* made before it do not reach: train is explored from the states no query has
\* been made in.
Train(visit_data) ==
    /\ call.op \in {"init", "train"}
    /\ cf_model' = train(cf_model, visit_data, 10)
    /\ call' = Call("train", 0, 0, FALSE, Returned(<<>>))
    /\ last_train' = [called |-> TRUE,
                      users  |-> {visit_data[i].user_id : i \in DOMAIN visit_data}]
    /\ UNCHANGED <<service_vars, helper_vars, load_vars>>

GetSimilarUsers(user_id, k) ==
    /\ \E o \in get_similar_users(cf_model, user_id, k) :
          call' = Call("get_similar_users", user_id, k, FALSE, o)
    /\ UNCHANGED <<cf_model, last_train, service_vars, helper_vars, load_vars>>

RecommendStores(user_id, n, exclude_visited) ==
    /\ \E o \in cf_recommend_stores(cf_model, user_id, n, exclude_visited) :
          call' = Call("recommend_stores", user_id, n, exclude_visited, o)
    /\ UNCHANGED <<cf_model, last_train, service_vars, helper_vars, load_vars>>

RecommendForNewUser(n) ==
    /\ call' = Call("_recommend_for_new_user", 0, n, FALSE,
                    Returned(recommend_for_new_user(cf_model, n)))
    /\ UNCHANGED <<cf_model, last_train, service_vars, helper_vars, load_vars>>

NextCF ==
    \/ \E visit_data \in VisitSeqs : Train(visit_data)
    \/ \E u \in Users, k \in TopNs : GetSimilarUsers(u, k)
    \/ \E u \in Users, n \in TopNs, e \in BOOLEAN : RecommendStores(u, n, e)
    \/ \E n \in TopNs : RecommendForNewUser(n)

SpecCF == Init /\ [][NextCF]_vars

\* ------------------------------------------------------------------------
\* recommend_stores, one category at a step
\* ------------------------------------------------------------------------
\* A request arrives: recommend_stores starts with an empty list.
NewRequest(user_id, location) ==
    /\ pc \in {"idle", "done", "error"}
    /\ pc' = "ai"
    /\ request' = [user_id |-> user_id, location |-> location]
    /\ recommendations' = <<>>
    /\ raised' = {}
    /\ last' = NoLast
    /\ response' = NoResponse
    /\ UNCHANGED <<cf_model, stores_df, engine_vars, helper_vars, load_vars>>

\* What every category block does with the outcome of its pipeline: an
\* exception the block does not catch leaves recommend_stores and the endpoint
\* answers with a server error.
Append_(category, outcome, caught, stores, next) ==
    /\ IF caught.raised
       THEN /\ pc' = "error"
            /\ response' = ServerError(request.user_id)
            /\ UNCHANGED recommendations
       ELSE /\ pc' = next
            /\ recommendations' =
                   Append(recommendations, CategoryRecommendation(category, stores))
            /\ UNCHANGED response
    /\ raised' = IF outcome.raised THEN raised \cup {category} ELSE raised
    /\ last' = [category |-> category, raised |-> outcome.raised,
                ranked |-> outcome.value, n_candidates |-> outcome.n_candidates]
    /\ UNCHANGED <<request, engine_vars, helper_vars, load_vars>>

ai_recommended_addresses == Addresses(recommendations[1].stores)

\* 1. AI: recommend_cf_stores, with the request's visit_statics and the rows
\* the visit database returns.
StepAI ==
    /\ pc = "ai"
    /\ \E user_visit_data \in ReqVisitLists, db_visit_data \in fetch_visit_data_from_db :
         \E df \in ensure_data_loaded(stores_df) :
           \E o \in recommend_cf_stores(df, cf_model, request.user_id, request.location,
                                        user_visit_data, db_visit_data) :
              /\ stores_df' = df
              /\ cf_model' = o.cf
              /\ Append_("ai", o, TryExcept(o), TryExcept(o).value, "event")

\* 2. event stores, with the request's event_stores
StepEvent ==
    /\ pc = "event"
    /\ \E event_stores_data \in Lists(EventRecords) :
         \E o \in {recommend_event_stores(stores_df, request.location, event_stores_data)} :
            Append_("event", o, TryExcept(o),
                    WithoutAI(TryExcept(o).value, ai_recommended_addresses), "new")
    /\ UNCHANGED <<cf_model, stores_df>>

\* 3. new stores, with the request's new_stores
StepNew ==
    /\ pc = "new"
    /\ \E new_stores_data \in Lists(NewRecords) :
         \E o \in {recommend_new_stores(stores_df, request.location, new_stores_data)} :
            Append_("new", o, TryExcept(o),
                    WithoutAI(TryExcept(o).value, ai_recommended_addresses), "popular")
    /\ UNCHANGED <<cf_model, stores_df>>

\* 4. popular stores, with the request's popular_stores
StepPopular ==
    /\ pc = "popular"
    /\ \E popular_stores_data \in Lists(PopularRecords) :
         \E o \in {recommend_popular_stores(stores_df, request.location, popular_stores_data)} :
            Append_("popular", o, TryExcept(o),
                    WithoutAI(TryExcept(o).value, ai_recommended_addresses), "nearby")
    /\ UNCHANGED <<cf_model, stores_df>>

\* An exclusion set for the nearby category that holds the AI addresses only.
only_ai_addresses == ai_recommended_addresses

\* An exclusion set for the nearby category that starts empty instead of as a
\* copy of the AI addresses: those of the event, new and popular stores.
event_new_popular_addresses ==
    UNION {Addresses(recommendations[i].stores) : i \in 2..4}

\* The addresses collected for recommend_nearby_stores: those of the AI,
\* event, new and popular stores.
all_recommended_addresses ==
    UNION {Addresses(recommendations[i].stores) : i \in 1..4}

\* 5. nearby stores
StepNearby ==
    /\ pc = "nearby"
    /\ \E o \in {recommend_nearby_stores(stores_df, request.location,
                                        all_recommended_addresses)} :
          Append_("nearby", o, TryExcept(o),
                  WithoutAI(TryExcept(o).value, ai_recommended_addresses), "return")
    /\ UNCHANGED <<cf_model, stores_df>>

\* return RecommendationResponse(...)
Return ==
    /\ pc = "return"
    /\ pc' = "done"
    /\ response' = RecommendationResponse(request.user_id, recommendations)
    /\ UNCHANGED <<cf_model, stores_df, request, recommendations, raised, last, engine_vars, helper_vars, load_vars>>

Next ==
    \/ \E u \in ReqUsers, l \in Locations : NewRequest(u, l)
    \/ StepAI
    \/ StepEvent
    \/ StepNew
    \/ StepPopular
    \/ StepNearby
    \/ Return

Spec == Init /\ [][Next]_vars

\* ------------------------------------------------------------------------
\* Properties of recommend_stores (Spec)
\* ------------------------------------------------------------------------
\* The addresses of the i-th category appended so far.
Out(i) == Addresses(recommendations[i].stores)

\* C1: no address of the AI category's output is in the output of the event,
\* new, popular or nearby category of the same request.
C1_NoAIAddressInOtherCategory ==
    \A i \in 2..Len(recommendations) : Out(i) \cap Out(1) = {}

\* A lower category ranked a store the AI category had output, and dropped it.
C1_Witness ==
    /\ last.category \in {"event", "new", "popular"}
    /\ Addresses(last.ranked) \cap Out(1) # {}
    /\ Out(Len(recommendations)) \cap Out(1) = {}

\* C2 as the code has it: an address output by the AI category is in no lower
\* category, and an address output by the AI, event, new or popular category is
\* not in the nearby category; event, new and popular are not deduplicated
\* against one another.
C2_DedupAgainstAIAndInNearby ==
    /\ \A i \in 2..Len(recommendations) : Out(1) \cap Out(i) = {}
    /\ Len(recommendations) = 5 => \A i \in 1..4 : Out(i) \cap Out(5) = {}

\* The nearby category left out a store an earlier category other than AI had
\* output, while two of the middle categories output one store.
C2_Witness ==
    /\ pc = "done"
    /\ Out(2) \cap Out(3) # {}
    /\ Out(5) # {}
    /\ \E r \in Range(stores_df.rows) :
          /\ r.address \in Out(2) \ Out(1)
          /\ calculate_distance(request.location, r) <= 5

\* C2 as stated: an address output by a category is in the output of no
\* lower-priority category.
C2_DedupAgainstEveryHigherCategory ==
    \A i, j \in DOMAIN recommendations : i < j => Out(i) \cap Out(j) = {}

\* C3: each category result holds at most 2 stores.
C3_AtMostTwoStores ==
    /\ \A i \in DOMAIN recommendations : Len(recommendations[i].stores) <= 2
    /\ \A i \in DOMAIN response.recommendations : Len(response.recommendations[i].stores) <= 2

\* A category with more than two candidates output two stores.
C3_Witness ==
    /\ last.n_candidates > 2
    /\ Len(recommendations[Len(recommendations)].stores) = 2

Labels(recs) == [i \in DOMAIN recs |-> recs[i].category]

Position(p) ==
    CASE p = "ai" -> 0 [] p = "event" -> 1 [] p = "new" -> 2 [] p = "popular" -> 3
      [] p = "nearby" -> 4 [] p \in {"return", "done"} -> 5 [] OTHER -> 0

\* C4: the categories are computed in the order AI, event, new, popular,
\* nearby, no request is abandoned, and every response lists exactly these five
\* in that order, whichever pipelines raised.
C4_FiveCategoriesInOrder ==
    /\ pc # "error"
    /\ Len(recommendations) = Position(pc)
    /\ Labels(recommendations) = SubSeq(CategoryOrder, 1, Len(recommendations))
    /\ response.sent => Labels(response.recommendations) = CategoryOrder

\* A response to a request in which all five pipelines raised.
C4_Witness ==
    /\ pc = "done"
    /\ raised = Range(CategoryOrder)
    /\ Labels(response.recommendations) = CategoryOrder

\* C5: a category whose pipeline raised has the empty list; a category whose
\* pipeline returned has what it returned, less the AI addresses, whichever
\* categories raised before it; the response has all five and success true.
C5_FailureIsolated ==
    /\ \A i \in DOMAIN recommendations :
          recommendations[i].category \in raised => recommendations[i].stores = <<>>
    /\ (last.category # "none" /\ ~last.raised) =>
          recommendations[Len(recommendations)].stores =
              IF last.category = "ai" THEN last.ranked
              ELSE WithoutAI(last.ranked, Out(1))
    /\ response.sent =>
          /\ response.success
          /\ response.recommendations = recommendations
          /\ Len(recommendations) = 5

\* The event pipeline raised, and the new and nearby categories of the same
\* response hold stores.
C5_Witness ==
    /\ pc = "done"
    /\ response.success
    /\ "event" \in raised
    /\ response.recommendations[2].stores = <<>>
    /\ response.recommendations[3].stores # <<>>
    /\ response.recommendations[5].stores # <<>>

\* ------------------------------------------------------------------------
\* Properties of the engine (SpecCF)
\* ------------------------------------------------------------------------
\* The user's cell of the interaction matrix for the store is positive.
Visited(cf, user_id, store_id) ==
    LET m == cf.user_item_matrix
    IN  /\ m.kind = "DataFrame"
        /\ user_id \in Range(m.index)
        /\ store_id \in Range(m.columns)
        /\ m.values[IndexOf(m.index, user_id)][IndexOf(m.columns, store_id)] > 0

\* C6: recommend_stores of the engine called with exclude_visited true returns
\* no store the user has a positive cell for.
C6_ExcludeVisitedOnEveryPath ==
    (call.op = "recommend_stores" /\ call.exclude /\ cf_model.is_trained /\ ~call.out.raised) =>
        \A i \in DOMAIN call.out.value : ~Visited(cf_model, call.user, call.out.value[i][1])

\* C7: when the last train call had fewer than 2 distinct users, or the user is
\* not in the trained user set, recommend_stores returns what
\* _recommend_for_new_user returns for the same n.
C7_FallbackEquivalence ==
    ( /\ call.op = "recommend_stores"
      /\ \/ last_train.called /\ Cardinality(last_train.users) < 2
         \/ call.user \notin Range(cf_model.user_ids) ) =>
        call.out = Returned(recommend_for_new_user(cf_model, call.n))

\* C8: after train with an empty visit set the engine is untrained, and
\* get_similar_users and recommend_stores return the empty list.
C8_TrainEmptyLeavesUntrained ==
    (last_train.called /\ last_train.users = {}) =>
        /\ ~cf_model.is_trained
        /\ call.op \in {"get_similar_users", "recommend_stores"} => call.out = Returned(<<>>)

\* C9: no call of get_similar_users, recommend_stores or
\* _recommend_for_new_user raises.
C9_QueriesNeverRaise ==
    call.op \in {"get_similar_users", "recommend_stores", "_recommend_for_new_user"} =>
        ~call.out.raised

\* C10: get_similar_users returns at most k pairs, none of them the user
\* itself, in non-increasing similarity, and the empty list when the engine is
\* untrained, the user unknown or fewer than 2 users are known.
C10_SimilarUsersContract ==
    (call.op = "get_similar_users" /\ ~call.out.raised) =>
        LET r == call.out.value
        IN  /\ Len(r) <= call.n
            /\ \A i \in DOMAIN r : r[i][1] # call.user
            /\ \A i \in 1..(Len(r) - 1) : SimCompare(r[i][2], r[i + 1][2]) >= 0
            /\ ( \/ ~cf_model.is_trained
                 \/ call.user \notin Range(cf_model.user_ids)
                 \/ Len(cf_model.user_ids) < 2 ) => r = <<>>

\* ------------------------------------------------------------------------
\* _get_store_by_address called directly (SpecLookup)
\* ------------------------------------------------------------------------
\* The longest address and the longest catalog of the direct lookups.
MaxAddrLen == 2

MaxRows == 2

AddrChars == {"a", " "}

\* The address strings: a query of the caller, the address column of a row.
AddrStrings == UNION {[1..n -> AddrChars] : n \in 0..MaxAddrLen}

\* The catalogs whose rows, numbered in order, carry these addresses.
LookupCatalogs ==
    { Catalog([i \in DOMAIN addrs |-> StoreRow(i, "n", addrs[i], 0, 0, TRUE)]) :
        addrs \in UNION {[1..n -> AddrStrings] : n \in 0..MaxRows} }

\* The call about to be made: a loaded catalog and the address to look up.
InitLookup ==
    /\ Constructed
    /\ \E df \in LookupCatalogs, store_address \in AddrStrings :
          probe = [op |-> "call", df |-> df, store_address |-> store_address,
                   out |-> NotFound]

\* self._get_store_by_address(store_address)
GetStoreByAddress ==
    /\ probe.op = "call"
    /\ probe' = [probe EXCEPT !.op = "_get_store_by_address",
                               !.out = get_store_by_address(probe.df, probe.store_address)]
    /\ UNCHANGED <<cf_model, engine_vars, service_vars, load_vars, ai_calls>>

NextLookup == GetStoreByAddress

SpecLookup == InitLookup /\ [][NextLookup]_vars

\* The rows of the looked-up catalog whose address is the query, is the query
\* once both are trimmed, holds the query, holds the trimmed query.
ExactRows == {i \in DOMAIN probe.df.rows : probe.df.rows[i].address = probe.store_address}

TrimmedRows ==
    {i \in DOMAIN probe.df.rows :
        Strip(probe.df.rows[i].address) = Strip(probe.store_address)}

HoldingQueryRows ==
    {i \in DOMAIN probe.df.rows : Contains(probe.df.rows[i].address, probe.store_address)}

HoldingTrimmedQueryRows ==
    {i \in DOMAIN probe.df.rows :
        Contains(probe.df.rows[i].address, Strip(probe.store_address))}

\* What a three-tier lookup answers when its third tier selects the rows T3.
TieredAnswer(T3) ==
    LET tier  == IF ExactRows # {} THEN ExactRows
                 ELSE IF TrimmedRows # {} THEN TrimmedRows
                 ELSE T3
    IN  IF tier = {} THEN NotFound
        ELSE Found(probe.df.rows[CHOOSE i \in tier : \A j \in tier : i <= j])

\* C11 (as the code has it): the lookup answers with the first row, in catalog
\* order, of the first tier that selects a row among: address equal to the
\* query, address equal to the query once both are trimmed, address holding
\* the trimmed query; it answers none when no tier selects a row.
C11_ThreeTiersTrimmedContainment ==
    probe.op = "_get_store_by_address" => probe.out = TieredAnswer(HoldingTrimmedQueryRows)

\* The third tier decides, among several rows, and only because it looks for
\* the trimmed query.
C11_Witness ==
    /\ probe.op = "_get_store_by_address"
    /\ ExactRows = {} /\ TrimmedRows = {} /\ HoldingQueryRows = {}
    /\ Cardinality(HoldingTrimmedQueryRows) >= 2
    /\ probe.out.found
    /\ probe.out.row.store_id = 1

\* C11 (as stated): the third tier selects the rows whose address holds the
\* query as the caller gave it.
C11_ThreeTiersContainment ==
    probe.op = "_get_store_by_address" => probe.out = TieredAnswer(HoldingQueryRows)

\* ------------------------------------------------------------------------
\* _ensure_data_loaded run by several threads (SpecLoad)
\* ------------------------------------------------------------------------
\* A thread may be suspended between any two reads or writes of the service's
\* attributes: each action below is one such read or write.
not_load_vars ==
    <<cf_model, engine_vars, pc, request, recommendations, raised, last, response,
      helper_vars>>

\* A caller enters _ensure_data_loaded and evaluates `self.stores_df is None`;
\* when it is not, the condition is false and the method returns.
TestStoresDf(t) ==
    /\ loader[t].pc \in {"idle", "raised"}
    /\ loader' = [loader EXCEPT ![t] =
                     [pc |-> IF stores_df.kind = "None" THEN "test_flag" ELSE "returned",
                      read |-> Returned(<<>>),
                      saw_loaded |-> stores_df.kind # "None"]]
    /\ UNCHANGED <<stores_df, is_loading, reads, not_load_vars>>

\* `not self._is_loading`; when the flag is set the method returns.
TestIsLoading(t) ==
    /\ loader[t].pc = "test_flag"
    /\ loader' = [loader EXCEPT ![t].pc = IF is_loading THEN "returned" ELSE "set_flag"]
    /\ UNCHANGED <<stores_df, is_loading, reads, not_load_vars>>

\* self._is_loading = True
SetIsLoading(t) ==
    /\ loader[t].pc = "set_flag"
    /\ is_loading' = TRUE
    /\ loader' = [loader EXCEPT ![t].pc = "read"]
    /\ UNCHANGED <<stores_df, reads, not_load_vars>>

\* the try block of self._load_stores_from_excel()
ReadSnapshot(t) ==
    /\ loader[t].pc = "read"
    /\ \E o \in read_excel :
          loader' = [loader EXCEPT ![t].pc = "assign", ![t].read = o]
    /\ reads' = reads + 1
    /\ UNCHANGED <<stores_df, is_loading, not_load_vars>>

\* self.stores_df = <what _load_stores_from_excel returned>.  The method
\* catches every exception of its try block itself, so the except block of
\* _ensure_data_loaded is not entered.
AssignStoresDf(t) ==
    /\ loader[t].pc = "assign"
    /\ stores_df' = load_stores_from_excel_after(loader[t].read)
    /\ loader' = [loader EXCEPT ![t].pc = "clear_flag"]
    /\ UNCHANGED <<is_loading, reads, not_load_vars>>

\* finally: self._is_loading = False
ClearIsLoading(t) ==
    /\ loader[t].pc = "clear_flag"
    /\ is_loading' = FALSE
    /\ loader' = [loader EXCEPT ![t].pc = "returned"]
    /\ UNCHANGED <<stores_df, reads, not_load_vars>>

\* The caller's next statement, self.stores_df[...]: a TypeError when
\* stores_df is None.
UseStoresDf(t) ==
    /\ loader[t].pc = "returned"
    /\ loader' = [loader EXCEPT ![t].pc = IF stores_df.kind = "None" THEN "raised" ELSE "idle"]
    /\ UNCHANGED <<stores_df, is_loading, reads, not_load_vars>>

NextLoad ==
    \E t \in Threads :
        \/ TestStoresDf(t)
        \/ TestIsLoading(t)
        \/ SetIsLoading(t)
        \/ ReadSnapshot(t)
        \/ AssignStoresDf(t)
        \/ ClearIsLoading(t)
        \/ UseStoresDf(t)

SpecLoad == Init /\ [][NextLoad]_vars

\* The threads between `self._is_loading = True` and the end of the finally
\* block.
InLoadBody == {t \in Threads : loader[t].pc \in {"read", "assign", "clear_flag"}}

\* C12: with several callers of _ensure_data_loaded on an unloaded service,
\* the snapshot is read at most once and no two callers are in the load body.
C12_SnapshotReadAtMostOnce ==
    /\ reads <= 1
    /\ Cardinality(InLoadBody) <= 1

\* C13: whenever _ensure_data_loaded has returned to a caller, stores_df is
\* not None, and no caller's self.stores_df[...] raises.
C13_ReturnedImpliesLoaded ==
    \A t \in Threads :
        /\ loader[t].pc = "returned" => stores_df.kind # "None"
        /\ loader[t].pc # "raised"

\* What C14 says of one step of thread t.
LoadStepOK(t) ==
    /\ (/\ loader[t].pc \in {"idle", "raised"}
        /\ loader'[t].pc # loader[t].pc
        /\ stores_df.kind = "DataFrame")
       => (/\ loader'[t].pc = "returned"
           /\ stores_df' = stores_df
           /\ reads' = reads)
    /\ (loader[t].pc = "assign" /\ loader'[t].pc # "assign")
       => (/\ loader'[t].pc = "clear_flag"
           /\ stores_df'.kind = "DataFrame"
           /\ Len(stores_df'.rows) >= 1
           /\ loader[t].read.raised
                => (Len(stores_df'.rows) = 1 /\ stores_df'.rows[1].store_id = 0))

\* C14: a call of _ensure_data_loaded that begins on a populated catalog
\* returns without reading the snapshot and leaves the catalog as it is; a
\* load leaves the catalog populated and goes on to return, and when its
\* read of the snapshot failed the catalog is exactly the one mock row.
C14_LoadIdempotentNeverFails == [][\A t \in Threads : LoadStepOK(t)]_vars

\* The read of the snapshot failed, the catalog is the mock row, and a call
\* made after that load has returned.
C14_Witness ==
    \E t \in Threads, u \in Threads :
        /\ loader[u].read.raised
        /\ loader[u].pc \in {"clear_flag", "returned"}
        /\ stores_df = Catalog(MockRows)
        /\ Len(stores_df.rows) = 1
        /\ loader[t].saw_loaded
        /\ loader[t].pc = "returned"

\* ------------------------------------------------------------------------
\* recommend_cf_stores run by several threads on the one service (SpecShared)
\* ------------------------------------------------------------------------
\* recommendation_service is one object of the module and its cf_model one
\* engine: every thread below trains and queries that engine.
not_shared_vars ==
    <<engine_vars, pc, request, recommendations, raised, last, response, probe, load_vars>>

\* recommend_cf_stores is entered: the catalog is loaded, and a request
\* without visit data gets the empty list.
CallCF(t, user_id, user_visit_data) ==
    /\ ai_calls[t].pc \in {"idle", "done"}
    /\ \E df \in ensure_data_loaded(stores_df) : stores_df' = df
    /\ ai_calls' = [ai_calls EXCEPT ![t] =
                       [pc              |-> IF user_visit_data = <<>> THEN "done" ELSE "train",
                        user_id         |-> user_id,
                        user_visit_data |-> user_visit_data,
                        db_visit_data   |-> <<>>,
                        out             |-> Returned(<<>>)]]
    /\ UNCHANGED <<cf_model, not_shared_vars>>

\* is_trained = self._train_cf_model(user_visit_data)
TrainCF(t) ==
    /\ ai_calls[t].pc = "train"
    /\ \E db_visit_data \in fetch_visit_data_from_db :
         \E trained \in {train_cf_model(stores_df, cf_model, ai_calls[t].user_visit_data,
                                         db_visit_data)} :
            /\ cf_model' = trained.cf
            /\ ai_calls' = [ai_calls EXCEPT
                               ![t].pc = IF trained.ok THEN "predict" ELSE "done",
                               ![t].db_visit_data = db_visit_data]
    /\ UNCHANGED <<stores_df, not_shared_vars>>

\* self.cf_model.recommend_stores(...) and the candidate loop, sort and cut
RankCF(t) ==
    /\ ai_calls[t].pc = "predict"
    /\ \E o \in rank_cf_stores(stores_df, cf_model, ai_calls[t].user_id, 0) :
          ai_calls' = [ai_calls EXCEPT
                         ![t].pc = "done",
                         ![t].out = [raised |-> o.raised, value |-> o.value]]
    /\ UNCHANGED <<cf_model, stores_df, not_shared_vars>>

NextShared ==
    \E t \in Threads :
        \/ \E u \in ReqUsers, v \in ReqVisitLists : CallCF(t, u, v)
        \/ TrainCF(t)
        \/ RankCF(t)

SpecShared == Init /\ [][NextShared]_vars

\* What recommend_cf_stores may answer thread t's call when it runs on an
\* engine of its own.
OwnEngineAnswers(t) ==
    { [raised |-> o.raised, value |-> o.value] :
        o \in recommend_cf_stores(stores_df, NewCFModel, ai_calls[t].user_id, 0,
                                  ai_calls[t].user_visit_data, ai_calls[t].db_visit_data) }

\* C15: the AI result of a request is what an engine of its own, trained on
\* that request's merged visit data, answers: no other request's training
\* changes it.
C15_AIResultFromOwnDataOnly ==
    \A t \in Threads : ai_calls[t].pc = "done" => ai_calls[t].out \in OwnEngineAnswers(t)

\* ------------------------------------------------------------------------
\* The new-store score computed directly (SpecScore)
\* ------------------------------------------------------------------------
\* days_since_joined ranges from MaxDaysOff days before 0 to MaxDaysOff days
\* after 30; distances up to MaxDistance km.
MaxDaysOff == 10

MaxDistance == 3

DayCounts == (0 - MaxDaysOff)..(30 + MaxDaysOff)

Distances == 0..MaxDistance

\* The candidate about to be scored: its record and its distance.
InitScore ==
    /\ Constructed
    /\ \E d \in DayCounts, distance \in Distances :
          probe = [op |-> "call", new_data |-> NewRecord(<<"a">>, d),
                   distance |-> distance, out |-> 0]

\* score = max(0, (30 - days_since_joined) * 2) - distance * 2
ComputeNewScore ==
    /\ probe.op = "call"
    /\ probe' = [probe EXCEPT !.op = "new_score",
                               !.out = new_score(probe.new_data, probe.distance)]
    /\ UNCHANGED <<cf_model, engine_vars, service_vars, load_vars, ai_calls>>

NextScore == ComputeNewScore

SpecScore == InitScore /\ [][NextScore]_vars

\* The first term of the computed score, in tenths like the score.
FirstTerm == probe.out + probe.distance * 20

\* C16 (as the code has it): the first term of the new-store score is 0, and
\* the score -distance_km * 2, for every days_since_joined of at least 30;
\* below 30 the first term is (30 - days_since_joined) * 2, which for a
\* negative days_since_joined is more than 60.
C16_FirstTermZeroFromThirtyDays ==
    probe.op = "new_score" =>
        /\ probe.new_data.days_since_joined >= 30
             => (FirstTerm = 0 /\ probe.out = 0 - probe.distance * 20)
        /\ probe.new_data.days_since_joined < 30
             => FirstTerm = (30 - probe.new_data.days_since_joined) * 2 * 10
        /\ probe.new_data.days_since_joined < 0 => FirstTerm > 600

\* A store that joined more than 30 days ago, some way off: its score is
\* the distance term alone.
C16_Witness ==
    /\ probe.op = "new_score"
    /\ probe.new_data.days_since_joined > 30
    /\ probe.distance > 0
    /\ probe.out = 0 - probe.distance * 20

\* C16 (as stated): the first term is 0 for every days_since_joined that is
\* negative or at least 30.
C16_FirstTermZeroNegativeOrFromThirty ==
    (/\ probe.op = "new_score"
     /\ (probe.new_data.days_since_joined < 0 \/ probe.new_data.days_since_joined >= 30))
    => (FirstTerm = 0 /\ probe.out = 0 - probe.distance * 20)

\* ------------------------------------------------------------------------
\* Further properties of recommend_stores (Spec)
\* ------------------------------------------------------------------------
\* The catalog rows an output store was made from.
RowsOf(store) ==
    {i \in DOMAIN stores_df.rows :
        /\ stores_df.rows[i].name = store.name
        /\ stores_df.rows[i].address = store.address}

\* Every store of the category's output is a catalog row at most km away
\* from the request's location.
OutputWithin(category, km) ==
    \A i \in DOMAIN recommendations :
        recommendations[i].category = category =>
            \A k \in DOMAIN recommendations[i].stores :
                /\ RowsOf(recommendations[i].stores[k]) # {}
                /\ \A r \in RowsOf(recommendations[i].stores[k]) :
                      calculate_distance(request.location, stores_df.rows[r]) <= km

\* C17: every store the nearby category outputs is within 5 km of the
\* request's location, and every store the AI category outputs within 10 km.
C17_OutputsWithinRadius ==
    /\ OutputWithin("nearby", 5)
    /\ OutputWithin("ai", 10)

\* A response whose AI and nearby categories both output a store, after the
\* engine predicted from a matrix that holds the store 12 km away, and with a
\* row farther than 5 km that no category has output.
C17_Witness ==
    /\ pc = "done"
    /\ recommendations[1].stores # <<>>
    /\ recommendations[5].stores # <<>>
    /\ \E j \in DOMAIN cf_model.store_ids : cf_model.store_ids[j] = 5
    /\ calculate_distance(request.location, stores_df.rows[5]) > 10
    /\ \E r \in DOMAIN stores_df.rows :
          /\ calculate_distance(request.location, stores_df.rows[r]) > 5
          /\ \A i \in DOMAIN recommendations :
                stores_df.rows[r].address \notin Addresses(recommendations[i].stores)

\* ------------------------------------------------------------------------
\* The category functions called directly (SpecRank)
\* ------------------------------------------------------------------------
\* A catalog in which stores score alike: n2 and n3 lie at the same distance
\* with the same rating, and n1 makes up its shorter way by its rating.  The
\* records of the requests below name its stores, an address "z" that no row
\* holds, and no address at all (a record sent with a store_id only).
RankRows ==
    << StoreRow(1, "n1", <<"a">>, 1, 20, TRUE),
       StoreRow(2, "n2", <<"b">>, 2, 45, TRUE),
       StoreRow(3, "n3", <<"c">>, 2, 45, TRUE),
       StoreRow(4, "n4", <<"d">>, 3, 30, TRUE) >>

RankEventRecords ==
    { EventRecord(<<"a">>, 1), EventRecord(<<"b">>, 1), EventRecord(<<"c">>, 1),
      EventRecord(<<"b">>, 2), EventRecord(<<"z">>, 3), EventRecord(NoneAddr, 1) }

RankNewRecords ==
    { NewRecord(<<"a">>, 29), NewRecord(<<"b">>, 28), NewRecord(<<"c">>, 28),
      NewRecord(<<"d">>, 40), NewRecord(<<"z">>, 1), NewRecord(NoneAddr, 1) }

RankPopularRecords ==
    { PopularRecord(<<"a">>, 30), PopularRecord(<<"b">>, 50), PopularRecord(<<"c">>, 50),
      PopularRecord(<<"d">>, 10), PopularRecord(<<"z">>, 90), PopularRecord(NoneAddr, 90) }

\* recommended_addresses of recommend_nearby_stores
RankExclusions == SUBSET {<<"a">>, <<"b">>, <<"c">>, <<"d">>}

\* The rows of the visit database for the AI category; the request's own
\* visit is user 1's of "a".
RankDbVisits ==
    { << Visit(2, <<"a">>, 1), Visit(2, <<"b">>, 1), Visit(2, <<"c">>, 1) >>,
      << Visit(2, <<"a">>, 1), Visit(2, <<"b">>, 2), Visit(2, <<"d">>, 1) >>,
      << Visit(2, <<"a">>, 1), Visit(2, <<"c">>, 1), Visit(2, <<"b">>, 1),
         Visit(3, <<"a">>, 1), Visit(3, <<"d">>, 2) >> }

\* A call of a category function: the category and its argument.
RankCall(category, data) ==
    [op |-> "call", category |-> category, data |-> data,
     out |-> [raised |-> FALSE, value |-> <<>>, candidates |-> <<>>, cmp |-> <<>>]]

InitRank ==
    /\ Constructed
    /\ \/ \E data \in Lists(RankEventRecords) : probe = RankCall("event", data)
       \/ \E data \in Lists(RankNewRecords) : probe = RankCall("new", data)
       \/ \E data \in Lists(RankPopularRecords) : probe = RankCall("popular", data)
       \/ \E data \in RankExclusions : probe = RankCall("nearby", data)
       \/ \E data \in RankDbVisits : probe = RankCall("ai", data)

\* What the called category function may return.
RankOutcomes ==
    CASE probe.category = "event" ->
            {recommend_event_stores(Catalog(RankRows), 0, probe.data)}
      [] probe.category = "new" ->
            {recommend_new_stores(Catalog(RankRows), 0, probe.data)}
      [] probe.category = "popular" ->
            {recommend_popular_stores(Catalog(RankRows), 0, probe.data)}
      [] probe.category = "nearby" ->
            {recommend_nearby_stores(Catalog(RankRows), 0, probe.data)}
      [] probe.category = "ai" ->
            recommend_cf_stores(Catalog(RankRows), NewCFModel, 1, 0,
                                << Visit(1, <<"a">>, 1) >>, probe.data)

\* recommend_event_stores / _new_ / _popular_ / _nearby_ / _cf_stores
RankCategory ==
    /\ probe.op = "call"
    /\ \E o \in RankOutcomes :
          probe' = [probe EXCEPT !.op = "ranked",
                                 !.out = [raised     |-> o.raised,
                                          value      |-> o.value,
                                          candidates |-> o.candidates,
                                          cmp        |-> o.cmp]]
    /\ UNCHANGED <<cf_model, engine_vars, service_vars, load_vars, ai_calls>>

NextRank == RankCategory

SpecRank == InitRank /\ [][NextRank]_vars

\* The orders of the candidates that are descending by score and keep equal
\* scores in the order of the candidate list.
StableDescendingOrders(candidates, cmp) ==
    { perm \in [DOMAIN candidates -> DOMAIN candidates] :
        /\ \A i \in DOMAIN candidates, j \in DOMAIN candidates : i # j => perm[i] # perm[j]
        /\ \A i \in 1..(Len(candidates) - 1) :
              \/ cmp[perm[i]][perm[i + 1]] > 0
              \/ cmp[perm[i]][perm[i + 1]] = 0 /\ perm[i] < perm[i + 1] }

\* C18: the list a category function returns is its candidates in descending
\* order of score, equal scores in the order of the candidate list, cut to
\* the first 2.
C18_StableDescendingTop2 ==
    (probe.op = "ranked" /\ ~probe.out.raised) =>
        /\ Len(probe.out.value) = Min(2, Len(probe.out.candidates))
        /\ \E perm \in StableDescendingOrders(probe.out.candidates, probe.out.cmp) :
              \A k \in DOMAIN probe.out.value :
                  probe.out.value[k] = SimpleStoreInfo(probe.out.candidates[perm[k]].store)

\* Three candidates of which the second and third, two different stores,
\* score alike and above the first: they are returned in that order.
C18_Witness ==
    /\ probe.op = "ranked"
    /\ ~probe.out.raised
    /\ Len(probe.out.candidates) = 3
    /\ probe.out.cmp[2][3] = 0
    /\ probe.out.cmp[2][1] > 0
    /\ probe.out.candidates[2].store # probe.out.candidates[3].store
    /\ probe.out.value = << SimpleStoreInfo(probe.out.candidates[2].store),
                            SimpleStoreInfo(probe.out.candidates[3].store) >>

\* The rows within 5 km of the request's location whose address none of the
\* first four categories has output.
UnclaimedNearbyRows ==
    {r \in DOMAIN stores_df.rows :
        /\ calculate_distance(request.location, stores_df.rows[r]) <= 5
        /\ stores_df.rows[r].address \notin UNION {Out(i) : i \in 1..4}}

\* C19: the nearby category outputs no address that the AI, event, new or
\* popular category of the response has output, and those addresses take none
\* of its 2 places: unless its pipeline raised, it outputs 2 stores whenever 2
\* rows within 5 km are left, and all that are left otherwise.
C19_NearbySlotsForUnclaimedRows ==
    Len(recommendations) = 5 =>
        /\ Out(5) \cap UNION {Out(i) : i \in 1..4} = {}
        /\ "nearby" \notin raised
             => Len(recommendations[5].stores) = Min(2, Cardinality(UnclaimedNearbyRows))

\* The event, new or popular category has output the row nearest to the
\* request, and the nearby category outputs two other rows.
C19_Witness ==
    /\ pc = "done"
    /\ "nearby" \notin raised
    /\ stores_df.rows[1].address \in UNION {Out(i) : i \in 2..4}
    /\ stores_df.rows[1].address \notin Out(1)
    /\ calculate_distance(request.location, stores_df.rows[1]) <= 5
    /\ Len(recommendations[5].stores) = 2

\* The records of the called category's list that resolve to a catalog row.
ResolvedRecords ==
    LET resolves(r) == get_store_by_address(Catalog(RankRows), r.store_address).found
    IN  SelectSeq(probe.data, resolves)

\* What the called category function returns for the resolved records alone.
OutcomeOfResolved ==
    CASE probe.category = "event" ->
            recommend_event_stores(Catalog(RankRows), 0, ResolvedRecords)
      [] probe.category = "new" ->
            recommend_new_stores(Catalog(RankRows), 0, ResolvedRecords)
      [] probe.category = "popular" ->
            recommend_popular_stores(Catalog(RankRows), 0, ResolvedRecords)

\* C20: in the event, new and popular categories a record that resolves to
\* no store, its address matching none or the record carrying no address, is
\* dropped alone: the function does not raise and returns what it returns
\* for the remaining records.
C20_UnresolvedRecordDroppedAlone ==
    (probe.op = "ranked" /\ probe.category \in {"event", "new", "popular"}) =>
        /\ ~probe.out.raised
        /\ probe.out.value = OutcomeOfResolved.value

\* ------------------------------------------------------------------------
\* _train_cf_model called directly (SpecMerge)
\* ------------------------------------------------------------------------
\* The longest visit list of the request and of the visit database.
MaxMerge == 2

\* Visit records: two spellings of the address of store 1, and other stores
\* and users.
MergeVisits ==
    { Visit(1, <<"a">>, 1), Visit(1, <<"a", " ">>, 2), Visit(1, <<"b">>, 1),
      Visit(2, <<"a">>, 3) }

MergeLists == UNION {[1..n -> MergeVisits] : n \in 0..MaxMerge}

\* The call about to be made: the request's visits and the database's rows.
InitMerge ==
    /\ Constructed
    /\ \E visit_data \in MergeLists, db_visit_data \in MergeLists :
          probe = [op |-> "call", visit_data |-> visit_data,
                   db_visit_data |-> db_visit_data,
                   formatted |-> <<>>, ok |-> FALSE, cf |-> NewCFModel]

\* self._train_cf_model(visit_data) on the loaded snapshot
TrainCFModel ==
    /\ probe.op = "call"
    /\ \E trained \in {train_cf_model(Catalog(SnapshotRows), NewCFModel, probe.visit_data,
                                       probe.db_visit_data)} :
          probe' = [probe EXCEPT
                      !.op = "_train_cf_model",
                      !.formatted = formatted_visit_data(Catalog(SnapshotRows),
                                                         probe.visit_data, probe.db_visit_data),
                      !.ok = trained.ok,
                      !.cf = trained.cf]
    /\ UNCHANGED <<cf_model, engine_vars, service_vars, load_vars, ai_calls>>

NextMerge == TrainCFModel

SpecMerge == InitMerge /\ [][NextMerge]_vars

\* The records passed to train that fall into the matrix cell at row i,
\* column j.
CellRecords(i, j) ==
    {k \in DOMAIN probe.formatted :
        /\ probe.formatted[k].user_id = probe.cf.user_ids[i]
        /\ probe.formatted[k].store_id = probe.cf.store_ids[j]}

\* C21: the records the matrix is built from hold at most one record per
\* (user_id, store), so that every cell is the visit_count of one record, 0
\* where there is none.
C21_OneRecordPerUserAndStore ==
    (probe.op = "_train_cf_model" /\ probe.ok) =>
        /\ probe.cf.user_item_matrix.den = 1
        /\ \A i \in DOMAIN probe.cf.user_ids, j \in DOMAIN probe.cf.store_ids :
              /\ Cardinality(CellRecords(i, j)) <= 1
              /\ probe.cf.user_item_matrix.values[i][j] =
                    IF CellRecords(i, j) = {} THEN 0
                    ELSE probe.formatted[CHOOSE k \in CellRecords(i, j) : TRUE].visit_count

\* ------------------------------------------------------------------------
\* recommend_cf_stores called directly on a fresh service (SpecFallback)
\* ------------------------------------------------------------------------
\* The call about to be made: the user, the request's visits, the rows of the
\* visit database.
InitFallback ==
    /\ Constructed
    /\ \E user_id \in {1, 2}, user_visit_data \in MergeLists, db_visit_data \in MergeLists :
          probe = [op |-> "call", user_id |-> user_id, user_visit_data |-> user_visit_data,
                   db_visit_data |-> db_visit_data,
                   out |-> [raised |-> FALSE, value |-> <<>>, candidates |-> <<>>,
                            cf |-> NewCFModel]]

\* self.recommend_cf_stores(user_id, lat, lon, user_visit_data)
RecommendCFStores ==
    /\ probe.op = "call"
    /\ \E o \in recommend_cf_stores(Catalog(SnapshotRows), NewCFModel, probe.user_id, 0,
                                      probe.user_visit_data, probe.db_visit_data) :
          probe' = [probe EXCEPT !.op = "recommend_cf_stores",
                                 !.out = [raised     |-> o.raised,
                                          value      |-> o.value,
                                          candidates |-> o.candidates,
                                          cf         |-> o.cf]]
    /\ UNCHANGED <<cf_model, engine_vars, service_vars, load_vars, ai_calls>>

NextFallback == RecommendCFStores

SpecFallback == InitFallback /\ [][NextFallback]_vars

\* The ids of the stores that the popularity fallback of engine cf returns
\* and that are catalog rows within 10 km.
FallbackStoreIds(cf) ==
    LET popular == recommend_for_new_user(cf, 10)
        near(p) == LET look == get_store_by_id(Catalog(SnapshotRows), p[1])
                   IN  look.found /\ calculate_distance(0, look.row) <= 10
        kept    == SelectSeq(popular, near)
    IN  [k \in DOMAIN kept |-> kept[k][1]]

\* The ids of the candidates the call collected.
CandidateStoreIds == [k \in DOMAIN probe.out.candidates |-> probe.out.candidates[k].store.store_id]

MergedEngine ==
    train_cf_model(Catalog(SnapshotRows), NewCFModel, probe.user_visit_data,
                   probe.db_visit_data).cf

ScenarioVisits ==
    <<VisitRecord(1, 1, 5), VisitRecord(1, 2, 1), VisitRecord(2, 1, 4), VisitRecord(2, 3, 3)>>

\* The four visits in every order.
ScenarioVisitSeqs ==
    {[i \in 1..Len(ScenarioVisits) |-> ScenarioVisits[q[i]]] :
        q \in Arrangements(1..Len(ScenarioVisits), Len(ScenarioVisits))}

\* The calls about to be made: train(visit_data, n_neighbors=10), then
\* get_similar_users('1', k) and recommend_stores('1', 10, exclude_visited).
InitScenario ==
    /\ Constructed
    /\ \E visit_data \in ScenarioVisitSeqs, k \in {1, 5, 10}, exclude_visited \in BOOLEAN :
          probe = [op |-> "call", visit_data |-> visit_data, k |-> k,
                   exclude_visited |-> exclude_visited,
                   similar |-> Returned(<<>>), predicted |-> Returned(<<>>)]

\* model.train(visit_data, 10); model.get_similar_users('1', k);
\* model.recommend_stores('1', 10, exclude_visited)
TrainAndQuery ==
    /\ probe.op = "call"
    /\ \E cf \in {train(NewCFModel, probe.visit_data, 10)} :
       \E su \in get_similar_users(cf, 1, probe.k),
          p \in cf_recommend_stores(cf, 1, 10, probe.exclude_visited) :
             probe' = [probe EXCEPT !.op = "queried", !.similar = su, !.predicted = p]
    /\ UNCHANGED <<cf_model, engine_vars, service_vars, load_vars, ai_calls>>

NextScenario == TrainAndQuery

SpecScenario == InitScenario /\ [][NextScenario]_vars

\* The ranks at which store s is returned by the prediction.
PredictedRanks(s) == {i \in DOMAIN probe.predicted.value : probe.predicted.value[i][1] = s}

\* C23: after training on [(u1,sA,5),(u1,sB,1),(u2,sA,4),(u2,sC,3)] with 10
\* neighbours, the similar users of u1 are exactly one pair, u2 with a
\* similarity above 0, and the prediction for u1 returns sC and does not
\* return sB at a rank before sC's.
C23_ScenarioSimilarUserAndRanking ==
    probe.op = "queried" =>
        /\ ~probe.similar.raised
        /\ Len(probe.similar.value) = 1
        /\ probe.similar.value[1][1] = 2
        /\ probe.similar.value[1][2].num > 0
        /\ ~probe.predicted.raised
        /\ PredictedRanks(3) # {}
        /\ \A i \in PredictedRanks(2) : \A j \in PredictedRanks(3) : j < i

\* The visits in the listed order, the default call: u2 is the one similar
\* user (cosine 20 / sqrt(26 * 25)) and sC is the one store predicted.
C23_Witness ==
    /\ probe.op = "queried"
    /\ probe.visit_data = ScenarioVisits
    /\ probe.k = 5
    /\ probe.exclude_visited
    /\ probe.similar.value = <<<<2, [num |-> 20, den2 |-> 650]>>>>
    /\ Len(probe.predicted.value) = 1
    /\ probe.predicted.value[1][1] = 3

\* ------------------------------------------------------------------------
\* Further properties of the engine (SpecCF)
\* ------------------------------------------------------------------------
\* C24: in every state where the engine is trained, the user labels are as
\* many as the rows of the interaction matrix, the store labels as many as its
\* columns, and the fitted index holds the rows of that matrix.
C24_TrainedStateSelfConsistent ==
    cf_model.is_trained =>
        /\ Len(cf_model.user_ids) = Len(cf_model.user_item_matrix.index)
        /\ Len(cf_model.store_ids) = Len(cf_model.user_item_matrix.columns)
        /\ cf_model.model.fit_X = cf_model.user_item_matrix.values

\* ------------------------------------------------------------------------
\* train called on a fresh engine (SpecPivot)
\* ------------------------------------------------------------------------
\* The call about to be made.  The labels are one character long, so their
\* order as strings is their order as numbers.
InitPivot ==
    /\ Constructed
    /\ \E visit_data \in VisitSeqs :
          probe = [op |-> "call", visit_data |-> visit_data, cf |-> NewCFModel]

\* model.train(visit_data)
TrainFresh ==
    /\ probe.op = "call"
    /\ probe' = [probe EXCEPT !.op = "train", !.cf = train(NewCFModel, probe.visit_data, 10)]
    /\ UNCHANGED <<cf_model, engine_vars, service_vars, load_vars, ai_calls>>

NextPivot == TrainFresh

SpecPivot == InitPivot /\ [][NextPivot]_vars

\* s lists the elements of S, each once, in ascending order.
Ascending(s, S) ==
    /\ Range(s) = S
    /\ \A i, j \in DOMAIN s : i < j => s[i] < s[j]

\* C25 (as the code has it): for a non-empty visit sequence train builds the
\* matrix with its rows in ascending order of the distinct user ids and its
\* columns in ascending order of the distinct store keys, and labels the
\* engine the same way.
C25_LabelsInAscendingOrder ==
    (probe.op = "train" /\ probe.visit_data # <<>>) =>
        LET v == probe.visit_data
            m == probe.cf.user_item_matrix
        IN  /\ Ascending(m.index, {v[i].user_id : i \in DOMAIN v})
            /\ Ascending(m.columns, {v[i].store_id : i \in DOMAIN v})
            /\ probe.cf.user_ids = m.index
            /\ probe.cf.store_ids = m.columns

\* Visits of user 2 at store 2, then of user 1 at store 1: rows 1, 2 and
\* columns 1, 2.
C25_Witness ==
    /\ probe.op = "train"
    /\ Len(probe.visit_data) = 2
    /\ probe.visit_data[1].user_id = 2 /\ probe.visit_data[1].store_id = 2
    /\ probe.visit_data[2].user_id = 1 /\ probe.visit_data[2].store_id = 1
    /\ probe.cf.user_item_matrix.index = <<1, 2>>
    /\ probe.cf.user_item_matrix.columns = <<1, 2>>

\* C25 (as stated): for a non-empty visit sequence the rows are in the order
\* in which the distinct user ids first appear and the columns in the order
\* in which the distinct store keys first appear.
C25_LabelsInFirstSeenOrder ==
    (probe.op = "train" /\ probe.visit_data # <<>>) =>
        LET v == probe.visit_data
            m == probe.cf.user_item_matrix
        IN  /\ m.index = FirstSeen([i \in DOMAIN v |-> v[i].user_id])
            /\ m.columns = FirstSeen([i \in DOMAIN v |-> v[i].store_id])

\* ------------------------------------------------------------------------
\* The AI filter of the category blocks (Spec)
\* ------------------------------------------------------------------------
\* C26: the AI addresses are among the addresses handed to
\* recommend_nearby_stores, so the list it returns holds no AI address and
\* the filter on the AI addresses that follows removes nothing: the nearby
\* category outputs the list as returned.
C26_NearbyFilterRemovesNothing ==
    last.category = "nearby" =>
        /\ ai_recommended_addresses \subseteq all_recommended_addresses
        /\ Addresses(last.ranked) \cap ai_recommended_addresses = {}
        /\ recommendations[5].stores = last.ranked

\* The AI category has output a row within 5 km of the request, and the
\* nearby category outputs the two stores its pipeline returned.
C26_Witness ==
    /\ pc = "done"
    /\ last.category = "nearby"
    /\ ~last.raised
    /\ \E r \in DOMAIN stores_df.rows :
          /\ stores_df.rows[r].address \in ai_recommended_addresses
          /\ calculate_distance(request.location, stores_df.rows[r]) <= 5
    /\ Len(last.ranked) = 2
    /\ recommendations[5].stores = last.ranked

\* ------------------------------------------------------------------------
\* The event, new and popular blocks of recommend_stores (SpecBlock)
\* ------------------------------------------------------------------------
\* ai_recommended_addresses when the block starts: the addresses of at most
\* two stores.
BlockAISets == { {}, {<<"a">>}, {<<"b">>}, {<<"b">>, <<"c">>} }

\* A block that removes the AI addresses from the sorted candidates before
\* it cuts them to two.
category_block_filter_first(outcome, ai_addresses) ==
    IF outcome.raised THEN <<>>
    ELSE LET sorted  == SortDescending(outcome.candidates, outcome.cmp)
             infos   == [i \in DOMAIN sorted |-> SimpleStoreInfo(sorted[i].store)]
             keep(s) == s.address \notin ai_addresses
         IN  Top2(SelectSeq(infos, keep))

\* try: stores_raw = self.recommend_..._stores(...);
\*      stores = [s for s in stores_raw if s.address not in ai_recommended_addresses]
\* except Exception: stores = []
category_block(outcome, ai_addresses) ==
    WithoutAI(TryExcept(outcome).value, ai_addresses)

\* The block about to run: its category, the request's list for it, and the
\* AI addresses.
InitBlock ==
    /\ Constructed
    /\ \E ai_addresses \in BlockAISets :
          \/ \E data \in Lists(RankEventRecords) :
                probe = [RankCall("event", data) EXCEPT !.op = "enter"] @@
                        [ai |-> ai_addresses, stores |-> <<>>]
          \/ \E data \in Lists(RankNewRecords) :
                probe = [RankCall("new", data) EXCEPT !.op = "enter"] @@
                        [ai |-> ai_addresses, stores |-> <<>>]
          \/ \E data \in Lists(RankPopularRecords) :
                probe = [RankCall("popular", data) EXCEPT !.op = "enter"] @@
                        [ai |-> ai_addresses, stores |-> <<>>]

\* The block of the category: the category function, then the filter.
CategoryBlock ==
    /\ probe.op = "enter"
    /\ \E o \in RankOutcomes :
          probe' = [probe EXCEPT !.op = "block",
                                 !.out = [raised     |-> o.raised,
                                          value      |-> o.value,
                                          candidates |-> o.candidates,
                                          cmp        |-> o.cmp],
                                 !.stores = category_block(o, probe.ai)]
    /\ UNCHANGED <<cf_model, engine_vars, service_vars, load_vars, ai_calls>>

NextBlock == CategoryBlock

SpecBlock == InitBlock /\ [][NextBlock]_vars

\* The list s without the stores whose address is an AI address of the block.
NotAI(s) ==
    LET keep(x) == x.address \notin probe.ai
    IN  SelectSeq(s, keep)

\* C27: the output of an event, new or popular block is the 2 candidates the
\* category ranks highest without those whose address is an AI address: the
\* filter comes after the cut, and no candidate ranked third or lower is
\* output.
C27_FilterAfterCutToTwo ==
    (probe.op = "block" /\ ~probe.out.raised) =>
        \E perm \in StableDescendingOrders(probe.out.candidates, probe.out.cmp) :
            probe.stores =
                NotAI([k \in 1..Min(2, Len(probe.out.candidates)) |->
                          SimpleStoreInfo(probe.out.candidates[perm[k]].store)])

\* One of the two highest-ranked candidates has an AI address and the block
\* outputs one store, while a candidate ranked third is of a store that is
\* neither an AI store nor the one output.
C27_Witness ==
    /\ probe.op = "block"
    /\ ~probe.out.raised
    /\ Len(probe.out.candidates) = 3
    /\ Len(probe.out.value) = 2
    /\ Len(probe.stores) = 1
    /\ \E perm \in StableDescendingOrders(probe.out.candidates, probe.out.cmp) :
          /\ probe.out.candidates[perm[3]].store.address \notin probe.ai
          /\ probe.out.candidates[perm[3]].store.address # probe.stores[1].address

\* C28: no store address occurs twice in the output of a block.
C28_NoAddressTwiceInOutput ==
    probe.op = "block" =>
        \A i, j \in DOMAIN probe.stores :
            i # j => probe.stores[i].address # probe.stores[j].address

\* ------------------------------------------------------------------------
\* Further properties of _get_store_by_address (SpecLookup)
\* ------------------------------------------------------------------------
\* C29: a query that is empty or holds white space only is answered with a
\* row only when some row's address is the query, or is the query once both
\* are trimmed.
C29_BlankQueryNeedsExactOrTrimmedRow ==
    (probe.op = "_get_store_by_address" /\ Strip(probe.store_address) = <<>>) =>
        (probe.out.found => (ExactRows # {} \/ TrimmedRows # {}))

\* ------------------------------------------------------------------------
\* recommend_cf_stores with more than five eligible predictions (SpecCollect)
\* ------------------------------------------------------------------------
\* A catalog of six stores, the last one the nearest to the request.
CollectRows ==
    << StoreRow(1, "n1", <<"a">>, 9, 40, TRUE),
       StoreRow(2, "n2", <<"b">>, 8, 40, TRUE),
       StoreRow(3, "n3", <<"c">>, 9, 40, TRUE),
       StoreRow(4, "n4", <<"d">>, 12, 40, TRUE),
       StoreRow(5, "n5", <<"e">>, 9, 40, TRUE),
       StoreRow(6, "n6", <<"f">>, 1, 40, TRUE) >>

\* The request's visit_statics: the visits of user 1 at the stores of the
\* catalog, 0 (no record), 1 or 2 visits at each.
CollectVisitLists ==
    { LET at == SortedSeq({r \in DOMAIN CollectRows : counts[r] > 0})
      IN  [k \in DOMAIN at |-> Visit(1, CollectRows[at[k]].address, counts[at[k]])] :
      counts \in [DOMAIN CollectRows -> {0, 1, 2}] }

\* The call about to be made, on a service whose visit database is empty.
InitCollect ==
    /\ Constructed
    /\ \E user_visit_data \in CollectVisitLists, loc \in {0, 2} :
          probe = [op |-> "call", user_visit_data |-> user_visit_data, loc |-> loc,
                   out |-> [raised |-> FALSE, value |-> <<>>, candidates |-> <<>>,
                            cf |-> NewCFModel]]

\* self.recommend_cf_stores('1', lat, lon, user_visit_data)
CollectCFStores ==
    /\ probe.op = "call"
    /\ \E o \in recommend_cf_stores(Catalog(CollectRows), NewCFModel, 1, probe.loc,
                                      probe.user_visit_data, <<>>) :
          probe' = [probe EXCEPT !.op = "recommend_cf_stores",
                                 !.out = [raised     |-> o.raised,
                                          value      |-> o.value,
                                          candidates |-> o.candidates,
                                          cf         |-> o.cf]]
    /\ UNCHANGED <<cf_model, engine_vars, service_vars, load_vars, ai_calls>>

NextCollect == CollectCFStores

SpecCollect == InitCollect /\ [][NextCollect]_vars

\* Every prediction whose store is a catalog row within 10 km of the
\* request, in the order of the predictions.
EligiblePredictions(cf_recommendations) ==
    LET look(i)     == get_store_by_id(Catalog(CollectRows), cf_recommendations[i][1])
        eligible(i) == look(i).found /\ calculate_distance(probe.loc, look(i).row) <= 10
        kept        == SortedSeq({i \in DOMAIN cf_recommendations : eligible(i)})
    IN  [k \in DOMAIN kept |->
            [store    |-> look(kept[k]).row,
             score    |-> cf_recommendations[kept[k]][2],
             distance |-> calculate_distance(probe.loc, look(kept[k]).row)]]

\* C30: the AI category outputs 2 of the eligible predictions (all of them
\* when they are fewer), and no eligible prediction that is not output, among
\* the first five or beyond them, has a higher final score than one that is.
C30_OutputIsBestOfAllEligible ==
    (probe.op = "recommend_cf_stores" /\ ~probe.out.raised /\ probe.out.cf.is_trained) =>
        \E o \in cf_recommend_stores(probe.out.cf, 1, 10, TRUE) :
            /\ ~o.raised
            /\ LET all    == EligiblePredictions(o.value)
                   cmp    == AICmp(all)
                   output == {i \in DOMAIN all :
                                SimpleStoreInfo(all[i].store) \in Range(probe.out.value)}
               IN  /\ Len(probe.out.value) = Min(2, Len(all))
                   /\ \A i \in output, k \in (DOMAIN all) \ output : cmp[i][k] >= 0
====
